---- MODULE Spec2Model ----
(***************************************************************************)
(* A model of qiskit/aqua/algorithms/single_sample/hhl/hhl.py: the HHL     *)
(* class.  Three specifications share the module:                          *)
(*   SpecConfig  HHL.init_params on a drawn (params, algo_input)           *)
(*   SpecTomo    the count-table handling of _state_tomography and         *)
(*               _tomo_postselect on a drawn execution result              *)
(*   SpecSolver  construct_circuit and _run called in any order on one     *)
(*               configured solver                                         *)
(* Complex numbers are pairs <<re, im>> of integers, matrices are          *)
(* sequences of rows, Python dicts are functions on a finite set of keys,  *)
(* and a Python string is the sequence of its characters.                  *)
(***************************************************************************)
EXTENDS Integers, Sequences, FiniteSets, TLC

VARIABLES
    algo_input,   \* init_params: the LinearSystemInput, or None
    params,       \* init_params: the 'algorithm' section of params
    configured,   \* init_params: what the call did (Pending before it)
    results,      \* tomography: the execution result handed to the solver
    tomo,         \* tomography: what the solver derived from results
    hhl,          \* solver: the fields of the HHL instance
    eigs,         \* solver: the fields of the Eigenvalues collaborator
    reciprocal,   \* solver: the fields of the Reciprocal collaborator
    heap,         \* solver: the dict objects, by reference
    returned,     \* solver: what each _run returned, and a copy taken then
    log,          \* solver: the collaborator calls and writes of the last call
    ncalls        \* solver: calls made so far

vars == <<algo_input, params, configured, results, tomo,
          hhl, eigs, reciprocal, heap, returned, log, ncalls>>

configVars == <<algo_input, params, configured>>
tomoVars == <<results, tomo>>
solverVars == <<hhl, eigs, reciprocal, heap, returned, log, ncalls>>

(***************************************************************************)
(* Bounds of the model.                                                    *)
(***************************************************************************)
MaxDim == 3        \* rows, columns and vector length of a drawn input
MaxVariants == 1   \* tomography circuits in one drawn execution result
MaxCount == 2      \* largest count of one outcome in a drawn count table
MaxCalls == 2      \* calls made on one solver

(***************************************************************************)
(* Complex numbers, vectors, matrices.                                     *)
(***************************************************************************)
Zero == <<0, 0>>
One == <<1, 0>>
Conj(z) == <<z[1], -z[2]>>
Re(z) == <<z[1], 0>>
AbsSq(z) == z[1] * z[1] + z[2] * z[2]

Rows(m) == Len(m)
Cols(m) == Len(m[1])

\* np.matrix(matrix).H
ConjTranspose(m) ==
    [i \in 1..Cols(m) |-> [j \in 1..Rows(m) |-> Conj(m[j][i])]]

\* np.isclose(a, b) is |a - b| <= 1e-8 + 1e-5 * |b|.  Every entry of the
\* model is a Gaussian integer of modulus below 10^5, for which the right
\* side is below 1 and the left side is 0 or at least 1: the test passes
\* exactly when a = b.
IsClose(a, b) == a = b

\* np.allclose(a, b) on two matrices of the same shape
AllClose(a, b) ==
    \A i \in 1..Rows(a) : \A j \in 1..Cols(a) : IsClose(a[i][j], b[i][j])

RECURSIVE IsPowerOfTwo(_)
\* np.log2(n) % 1 == 0, for n >= 1
IsPowerOfTwo(n) ==
    IF n = 1 THEN TRUE
    ELSE IF n % 2 = 1 THEN FALSE
    ELSE IsPowerOfTwo(n \div 2)

RECURSIVE PowerAtLeast(_, _)
PowerAtLeast(p, n) == IF p >= n THEN p ELSE PowerAtLeast(p + p, n)

\* 2 ** int(np.ceil(np.log2(n))), for n >= 1
NextPowerOfTwo(n) == PowerAtLeast(1, n)

(***************************************************************************)
(* HHL.init_params                                                         *)
(***************************************************************************)
\* Python's None, and the state of a call not made yet.
None == [none |-> TRUE]
Pending == [raised |-> "Pending"]

\* The errors init_params raises, by the names the design gives them:
\*   MissingInput       AquaError("LinearSystemInput instance is required.")
\*   DimensionMismatch  ValueError("Input vector dimension does not match
\*                                  input matrix dimension!")
\*   NonSquareMatrix    ValueError("Input matrix must be square!")
\*   NotHermitian       ValueError("Input matrix is not hermitian!")
\*   InvalidDimension   ValueError("Matrix dimension must be 2**n!")
Errors ==
    {"MissingInput", "DimensionMismatch", "NonSquareMatrix",
     "NotHermitian", "InvalidDimension"}

\* A variant that tests the shape of the matrix before the vector's length.
check_input_square_first(input) ==
    IF input = None THEN "MissingInput"
    ELSE IF Rows(input.matrix) # Cols(input.matrix) THEN "NonSquareMatrix"
    ELSE IF Rows(input.matrix) # Len(input.vector) THEN "DimensionMismatch"
    ELSE "ok"

\* The checks made on the input as supplied.
check_input(input) ==
    IF input = None THEN "MissingInput"
    ELSE IF Rows(input.matrix) # Len(input.vector) THEN "DimensionMismatch"
    ELSE IF Rows(input.matrix) # Cols(input.matrix) THEN "NonSquareMatrix"
    ELSE "ok"

\* The expansion of a non-hermitian matrix and its vector.
expand_hermitian(matrix, vector) ==
    LET half_dim == Rows(matrix)
        full_dim == 2 * half_dim
        H == ConjTranspose(matrix)
    IN  [matrix |->
            [i \in 1..full_dim |-> [j \in 1..full_dim |->
                IF i <= half_dim /\ j > half_dim
                    THEN matrix[i][j - half_dim]
                ELSE IF i > half_dim /\ j <= half_dim
                    THEN H[i - half_dim][j]
                ELSE Zero]],
         vector |->
            [k \in 1..full_dim |->
                IF k <= Len(vector) THEN Conj(vector[k])
                ELSE vector[k - Len(vector)]]]

\* A variant that leaves the vector at its length.
expand_size_matrix_only(matrix, vector) ==
    LET mat_dim == Rows(matrix)
        size == NextPowerOfTwo(mat_dim)
    IN  [matrix |->
            [i \in 1..size |-> [j \in 1..size |->
                IF i <= mat_dim /\ j <= mat_dim THEN matrix[i][j]
                ELSE IF i = j THEN One ELSE Zero]],
         vector |-> vector]

\* The expansion to the next power of two.  new_vector is np.zeros(...) of
\* dtype float: assigning the (complex) vector into it keeps the real parts.
expand_size(matrix, vector) ==
    LET mat_dim == Rows(matrix)
        size == NextPowerOfTwo(mat_dim)
    IN  [matrix |->
            [i \in 1..size |-> [j \in 1..size |->
                IF i <= mat_dim /\ j <= mat_dim THEN matrix[i][j]
                ELSE IF i = j THEN One ELSE Zero]],
         vector |->
            [k \in 1..size |->
                IF k <= Len(vector) THEN Re(vector[k]) ELSE Zero]]

\* A variant that tests the dimension before the symmetry.
revalidate_dimension_first(matrix) ==
    IF ~IsPowerOfTwo(Rows(matrix)) THEN "InvalidDimension"
    ELSE IF ~AllClose(matrix, ConjTranspose(matrix)) THEN "NotHermitian"
    ELSE "ok"

\* The checks made on the matrix after the expansions.
revalidate(matrix) ==
    IF ~AllClose(matrix, ConjTranspose(matrix)) THEN "NotHermitian"
    ELSE IF ~IsPowerOfTwo(Rows(matrix)) THEN "InvalidDimension"
    ELSE "ok"

RECURSIVE Log2(_)
Log2(n) == IF n <= 1 THEN 0 ELSE 1 + Log2(n \div 2)

\* Eigenvalues.get_register_sizes(): num_q qubits carry a matrix of
\* dimension 2 ** num_q.
get_register_sizes(matrix) == Log2(Rows(matrix))

\* What a call of init_params does: the error it raises ("ok" for none),
\* the arguments it hands to the constructor (None when it raises), and the
\* values its locals had after each of the two optional expansions.
init_params(p, input) ==
    IF check_input(input) # "ok"
    THEN [raised |-> check_input(input), instance |-> None]
    ELSE
    LET orig_size == Len(input.vector)
        is_hermitian == AllClose(input.matrix, ConjTranspose(input.matrix))
        is_correctsize == IsPowerOfTwo(Rows(input.matrix))
        given == [matrix |-> input.matrix, vector |-> input.vector]
        after_hermitian ==
            IF p.auto_hermitian /\ ~is_hermitian
            THEN expand_hermitian(given.matrix, given.vector)
            ELSE given
        after_resize ==
            IF p.auto_resize /\ ~is_correctsize
            THEN expand_size(after_hermitian.matrix, after_hermitian.vector)
            ELSE after_hermitian
        raised == revalidate(after_resize.matrix)
    IN  [raised |-> raised,
         is_hermitian |-> is_hermitian,
         is_correctsize |-> is_correctsize,
         after_hermitian |-> after_hermitian,
         after_resize |-> after_resize,
         instance |->
            IF raised # "ok" THEN None
            ELSE [matrix |-> after_resize.matrix,
                  vector |-> after_resize.vector,
                  auto_hermitian |-> p.auto_hermitian,
                  auto_resize |-> p.auto_resize,
                  num_q |-> get_register_sizes(after_resize.matrix),
                  original_dimension |-> orig_size]]

(***************************************************************************)
(* The inputs drawn for init_params: matrices of up to MaxDim rows and     *)
(* columns with at most two non-zero entries, vectors of up to MaxDim      *)
(* entries with at most one.                                               *)
(***************************************************************************)
Entries == {<<1, 0>>, <<0, 1>>, <<0, -1>>}

Positions(r, c) == (1..r) \X (1..c)

MatricesOf(r, c) ==
    {[i \in 1..r |-> [j \in 1..c |->
        IF <<i, j>> \in S THEN f[<<i, j>>] ELSE Zero]] :
        <<S, f>> \in UNION {{S} \X [S -> Entries] :
            S \in {{}} \cup {{x, y} : <<x, y>> \in
                              Positions(r, c) \X Positions(r, c)}}}

VectorsOf(n) ==
    {[k \in 1..n |-> Zero]} \cup
    {[k \in 1..n |-> IF k = at THEN e ELSE Zero] :
        <<at, e>> \in (1..n) \X Entries}

Inputs ==
    {None} \cup
    UNION {[matrix : MatricesOf(r, c), vector : VectorsOf(n)] :
        <<r, c, n>> \in (1..MaxDim) \X (1..MaxDim) \X (1..MaxDim)}

Params == [auto_hermitian : BOOLEAN, auto_resize : BOOLEAN]

(***************************************************************************)
(* SpecConfig: one call of init_params on a drawn input.                   *)
(***************************************************************************)
TomoIdle == results = << >> /\ tomo = Pending
SolverIdle ==
    /\ hhl = None /\ eigs = None /\ reciprocal = None
    /\ heap = << >> /\ returned = << >> /\ log = << >> /\ ncalls = 0

InitConfig ==
    /\ algo_input \in Inputs
    /\ params \in Params
    /\ configured = Pending
    /\ TomoIdle
    /\ SolverIdle

Configure ==
    /\ configured = Pending
    /\ configured' = init_params(params, algo_input)
    /\ UNCHANGED <<algo_input, params, tomoVars, solverVars>>

NextConfig == Configure

SpecConfig == InitConfig /\ [][NextConfig]_vars

\* The call was made on an input that passed the first two checks.
Accepted ==
    /\ configured # Pending
    /\ algo_input # None
    /\ Rows(algo_input.matrix) = Len(algo_input.vector)
    /\ Rows(algo_input.matrix) = Cols(algo_input.matrix)

\* m equals its conjugate transpose, entry for entry.
Hermitian(m) ==
    \A i \in 1..Rows(m) : \A j \in 1..Rows(m) : m[i][j] = Conj(m[j][i])

\* C1: a missing input raises MissingInput; otherwise a vector whose length
\* differs from the row count raises DimensionMismatch, and otherwise a
\* non-square matrix raises NonSquareMatrix, whatever the two flags are.
C1_InputChecks ==
    configured # Pending =>
        /\ algo_input = None => configured.raised = "MissingInput"
        /\ algo_input # None =>
            /\ Len(algo_input.vector) # Rows(algo_input.matrix)
                => configured.raised = "DimensionMismatch"
            /\ ( /\ Len(algo_input.vector) = Rows(algo_input.matrix)
                 /\ Rows(algo_input.matrix) # Cols(algo_input.matrix) )
                => configured.raised = "NonSquareMatrix"
            /\ configured.raised # "MissingInput"
        /\ configured.raised \in {"MissingInput", "DimensionMismatch",
                                  "NonSquareMatrix"}
            => configured.instance = None

\* A non-square matrix whose row count differs from the vector's length,
\* with both flags set, was reported as a DimensionMismatch.
C1_Witness ==
    /\ configured # Pending
    /\ algo_input # None
    /\ Rows(algo_input.matrix) # Cols(algo_input.matrix)
    /\ Rows(algo_input.matrix) # Len(algo_input.vector)
    /\ params.auto_hermitian /\ params.auto_resize
    /\ configured.raised = "DimensionMismatch"

\* C2: on an input that passed the first checks, the matrix as it stands
\* after the optional expansions raises NotHermitian when it is not
\* Hermitian, and InvalidDimension when it is Hermitian of a dimension that
\* is no power of two; a non-Hermitian input without auto_hermitian always
\* raises NotHermitian, a Hermitian input of a dimension that is no power of
\* two without auto_resize always raises InvalidDimension; and no instance
\* is returned when either is raised.
C2_Revalidation ==
    Accepted =>
        LET m == configured.after_resize.matrix
            a == algo_input.matrix
        IN  /\ ~Hermitian(m) => configured.raised = "NotHermitian"
            /\ (Hermitian(m) /\ ~IsPowerOfTwo(Rows(m)))
                => configured.raised = "InvalidDimension"
            /\ (~Hermitian(a) /\ ~params.auto_hermitian)
                => configured.raised = "NotHermitian"
            /\ (Hermitian(a) /\ ~IsPowerOfTwo(Rows(a)) /\ ~params.auto_resize)
                => configured.raised = "InvalidDimension"
            /\ configured.raised \in {"NotHermitian", "InvalidDimension"}
                => configured.instance = None

\* A non-Hermitian matrix of three rows, resized but not made Hermitian,
\* was reported as NotHermitian.
C2_Witness ==
    /\ Accepted
    /\ ~Hermitian(algo_input.matrix)
    /\ ~IsPowerOfTwo(Rows(algo_input.matrix))
    /\ ~params.auto_hermitian /\ params.auto_resize
    /\ Rows(configured.after_resize.matrix) > Rows(algo_input.matrix)
    /\ configured.raised = "NotHermitian"

\* The block matrix [[0, A^H], [A, 0]].
BlockEmbedding(a) ==
    LET n == Rows(a)
    IN  [i \in 1..(2 * n) |-> [j \in 1..(2 * n) |->
            IF i <= n /\ j > n THEN Conj(a[j - n][i])
            ELSE IF i > n /\ j <= n THEN a[i - n][j]
            ELSE Zero]]

\* concat(conj(b), b)
ConjConcat(b) ==
    [k \in 1..(2 * Len(b)) |->
        IF k <= Len(b) THEN Conj(b[k]) ELSE b[k - Len(b)]]

\* C3: with auto_hermitian set and a non-Hermitian n x n matrix A, the
\* matrix after the first expansion is [[0, A^H], [A, 0]] of dimension 2n
\* and the vector is concat(conj(b), b).
C3_BlockEmbedding ==
    (Accepted /\ params.auto_hermitian /\ ~Hermitian(algo_input.matrix)) =>
        /\ configured.after_hermitian.matrix = BlockEmbedding(algo_input.matrix)
        /\ configured.after_hermitian.vector = ConjConcat(algo_input.vector)

\* C4: a call that returns an instance returns a matrix of power-of-two
\* dimension equal to its own conjugate transpose, a vector of that
\* length, and as original dimension the length of the vector supplied,
\* which is at most the dimension.
C4_ConfiguredInvariants ==
    (configured # Pending /\ configured.raised = "ok") =>
        LET inst == configured.instance
        IN  /\ inst # None
            /\ IsPowerOfTwo(Rows(inst.matrix))
            /\ Cols(inst.matrix) = Rows(inst.matrix)
            /\ Hermitian(inst.matrix)
            /\ Len(inst.vector) = Rows(inst.matrix)
            /\ inst.original_dimension = Len(algo_input.vector)
            /\ inst.original_dimension <= Rows(inst.matrix)

\* An instance was returned after both expansions ran.
C4_Witness ==
    /\ Accepted
    /\ configured.raised = "ok"
    /\ ~Hermitian(algo_input.matrix)
    /\ ~IsPowerOfTwo(Rows(algo_input.matrix))
    /\ Rows(configured.after_hermitian.matrix) > Rows(algo_input.matrix)
    /\ Rows(configured.instance.matrix)
        > Rows(configured.after_hermitian.matrix)

\* m in the top-left block of the identity matrix of the given size
IdentityEmbedding(m, size) ==
    [i \in 1..size |-> [j \in 1..size |->
        IF i <= Rows(m) /\ j <= Rows(m) THEN m[i][j]
        ELSE IF i = j THEN One ELSE Zero]]

\* v followed by zeros, up to the given size
ZeroPadded(v, size) ==
    [k \in 1..size |-> IF k <= Len(v) THEN v[k] ELSE Zero]

\* C5: with auto_resize set and the matrix of dimension d at that step,
\* d no power of two: the result is the matrix in the top-left block of
\* the identity of the next power of two and the vector, its first d
\* entries unchanged, followed by zeros; d a power of two: nothing changes;
\* and the resize runs exactly when d is no power of two.
C5_IdentityEmbedding ==
    (Accepted /\ params.auto_resize) =>
        LET before == configured.after_hermitian
            after == configured.after_resize
            d == Rows(before.matrix)
        IN  /\ ~IsPowerOfTwo(d) =>
                /\ after.matrix =
                    IdentityEmbedding(before.matrix, NextPowerOfTwo(d))
                /\ after.vector =
                    ZeroPadded(before.vector, NextPowerOfTwo(d))
            /\ IsPowerOfTwo(d) => after = before
            /\ configured.is_correctsize = IsPowerOfTwo(d)

(***************************************************************************)
(* The two problems the solver is configured for in SpecTomo and           *)
(* SpecSolver: A = diag(1, 2), b = (1, 0) with both flags off, and the     *)
(* 3 x 3 identity, b = (1, 0, 0) with auto_resize (resized to 4 x 4).      *)
(***************************************************************************)
Diag12 == <<<<One, Zero>>, <<Zero, <<2, 0>>>>>>
Identity3 == <<<<One, Zero, Zero>>, <<Zero, One, Zero>>, <<Zero, Zero, One>>>>

Solvers ==
    {init_params([auto_hermitian |-> FALSE, auto_resize |-> FALSE],
                 [matrix |-> Diag12, vector |-> <<One, Zero>>]).instance,
     init_params([auto_hermitian |-> FALSE, auto_resize |-> TRUE],
                 [matrix |-> Identity3,
                  vector |-> <<One, Zero, Zero>>]).instance}

(***************************************************************************)
(* The count tables of the tomography circuits.  Each circuit has two      *)
(* classical registers, the tomography register over the io qubits and     *)
(* the one-bit register ca added last; a key of its count table is the     *)
(* ancilla bit, a space, and the io bits.                                  *)
(***************************************************************************)
Bits == {"0", "1"}

CountKeys(num_q) ==
    {<<a, " ">> \o io : <<a, io>> \in Bits \X [1..num_q -> Bits]}

RECURSIVE SumOver(_, _)
\* the sum of the counts of the keys in K
SumOver(counts, K) ==
    IF K = {} THEN 0
    ELSE LET k == CHOOSE x \in K : TRUE
         IN  counts[k] + SumOver(counts, K \ {k})

\* the count tables with one or two outcomes, each seen up to MaxCount
\* times, of a circuit that was run at least once
CountTables(num_q) ==
    {t \in UNION {[K -> 0..MaxCount] :
            K \in {{x, y} : <<x, y>> \in
                            CountKeys(num_q) \X CountKeys(num_q)}} :
        SumOver(t, DOMAIN t) > 0}

\* the header of an experiment result: the register sizes, the labels of
\* the classical bits and their number
TomoHeader(num_q) ==
    [creg_sizes |-> <<<<"c0", num_q>>, <<"c1", 1>>>>,
     clbit_labels |-> [k \in 1..(num_q + 1) |->
        IF k <= num_q THEN <<"c0", k - 1>> ELSE <<"c1", 0>>],
     memory_slots |-> num_q + 1]

\* the execution results of 1..MaxVariants tomography circuits
ExecutionResults(num_q) ==
    UNION {[1..n -> [header : {TomoHeader(num_q)},
                     counts : CountTables(num_q)]] : n \in 1..MaxVariants}

RECURSIVE Split(_, _)
\* str.split(sep)
Split(str, sep) ==
    IF \A i \in 1..Len(str) : str[i] # sep THEN <<str>>
    ELSE LET at == CHOOSE i \in 1..Len(str) :
                    str[i] = sep /\ \A j \in 1..(i - 1) : str[j] # sep
         IN  <<SubSeq(str, 1, at - 1)>>
                \o Split(SubSeq(str, at + 1, Len(str)), sep)

\* _state_tomography's loop over one count table: s sums the counts whose
\* key starts with "1", f the others.
success_failure(counts) ==
    [s |-> SumOver(counts, {k \in DOMAIN counts : k[1] = "1"}),
     f |-> SumOver(counts, {k \in DOMAIN counts : k[1] # "1"})]

\* s/(f+s), as numerator and denominator
success_ratio(counts) ==
    <<success_failure(counts).s,
      success_failure(counts).f + success_failure(counts).s>>

\* A variant that keeps every entry.
postselect_counts_all(old_counts) ==
    LET kept == DOMAIN old_counts
        new_keys == {Split(k, " ")[2] : k \in kept}
    IN  [n \in new_keys |->
            old_counts[CHOOSE k \in kept : Split(k, " ")[2] = n]]

\* _tomo_postselect's loop over one count table: the entries whose first
\* register reads "1", under the second register as key.  Two entries with
\* the same second register would leave one of them.
postselect_counts(old_counts) ==
    LET kept == {k \in DOMAIN old_counts : Split(k, " ")[1] = <<"1">>}
        new_keys == {Split(k, " ")[2] : k \in kept}
    IN  [n \in new_keys |->
            old_counts[CHOOSE k \in kept : Split(k, " ")[2] = n]]

\* _tomo_postselect: a copy of results with, per experiment, the first
\* register only, the last bit label dropped, one memory slot fewer, and
\* the postselected counts.
tomo_postselect(res) ==
    [idx \in DOMAIN res |->
        [header |->
            [creg_sizes |-> <<res[idx].header.creg_sizes[1]>>,
             clbit_labels |->
                SubSeq(res[idx].header.clbit_labels, 1,
                       Len(res[idx].header.clbit_labels) - 1),
             memory_slots |-> res[idx].header.memory_slots - 1],
         counts |-> postselect_counts(res[idx].counts)]]

(***************************************************************************)
(* SpecTomo: the count-table part of _state_tomography on a drawn          *)
(* execution result.                                                       *)
(***************************************************************************)
ConfigIdle ==
    algo_input = None /\ params = None /\ configured = Pending

InitTomo ==
    /\ \E solver \in Solvers : results \in ExecutionResults(solver.num_q)
    /\ tomo = Pending
    /\ ConfigIdle
    /\ SolverIdle

Tabulate ==
    /\ tomo = Pending
    /\ tomo' = [raised |-> "ok",
                partition |->
                    [idx \in DOMAIN results |->
                        success_failure(results[idx].counts)],
                probs |->
                    [idx \in DOMAIN results |->
                        success_ratio(results[idx].counts)],
                results_noanc |-> tomo_postselect(results)]
    /\ UNCHANGED <<results, configVars, solverVars>>

NextTomo == Tabulate

SpecTomo == InitTomo /\ [][NextTomo]_vars

\* the total of a count table
Total(counts) == SumOver(counts, DOMAIN counts)

\* C7: for every variant, success and failure counts add up to the total
\* of the variant's counts and the ratio lies in [0, 1]; the postselected
\* table has one entry per success entry of the original, under the io
\* bits of its key and with its count, and nothing else, so its total is
\* the success count of the ratio.
C7_Partition ==
    tomo # Pending =>
        \A idx \in DOMAIN results :
            LET counts == results[idx].counts
                part == tomo.partition[idx]
                post == tomo.results_noanc[idx].counts
                success == {k \in DOMAIN counts : Head(k) = "1"}
            IN  /\ part.s + part.f = Total(counts)
                /\ tomo.probs[idx][2] > 0
                /\ 0 <= tomo.probs[idx][1]
                /\ tomo.probs[idx][1] <= tomo.probs[idx][2]
                /\ tomo.probs[idx] = <<part.s, part.s + part.f>>
                /\ Cardinality(DOMAIN post) = Cardinality(success)
                /\ \A k \in success :
                    /\ SubSeq(k, 3, Len(k)) \in DOMAIN post
                    /\ post[SubSeq(k, 3, Len(k))] = counts[k]
                /\ Total(post) = part.s

\* A variant with two success entries of different counts was tabulated.
C7_Witness ==
    /\ tomo # Pending
    /\ \E idx \in DOMAIN results :
        \E j, k \in DOMAIN results[idx].counts :
            /\ j # k /\ Head(j) = "1" /\ Head(k) = "1"
            /\ results[idx].counts[j] # results[idx].counts[k]
            /\ Cardinality(DOMAIN tomo.results_noanc[idx].counts) > 1

(***************************************************************************)
(* The solver.  An object created during call number n carries n as its    *)
(* identity; the collaborators' sub-circuits are gates naming the objects  *)
(* they were built on.                                                     *)
(***************************************************************************)
QuantumRegister(n, name) == [kind |-> "qreg", name |-> name, id |-> n]
ClassicalRegister(n, name) == [kind |-> "creg", name |-> name, id |-> n]

\* HHL.__init__ on the arguments init_params hands over
NewSolver(inst) ==
    [matrix |-> inst.matrix,
     vector |-> inst.vector,
     num_q |-> inst.num_q,
     original_dimension |-> inst.original_dimension,
     circuit |-> None,
     io_register |-> None,
     eigenvalue_register |-> None,
     ancilla_register |-> None,
     success_bit |-> None,
     ret |-> "ret"]

\* Eigenvalues.construct_circuit("circuit", q): builds the forward
\* sub-circuit on q and a new output register, and records all three.
eigs_construct_circuit(q, n) ==
    LET a == QuantumRegister(n, "eigs")
    IN  [circuit |-> [kind |-> "qpe", id |-> n,
                      input_register |-> q, output_register |-> a],
         input_register |-> q,
         output_register |-> a]

\* Reciprocal.construct_circuit("circuit", a): builds the rotation on a and
\* records its ancilla.
reciprocal_construct_circuit(a, n) ==
    [circuit |-> [kind |-> "rotation", id |-> n, on |-> a],
     anc |-> QuantumRegister(n, "anc")]

\* The gates construct_circuit appends to qc, in order: forward is what
\* Eigenvalues.construct_circuit returned, r the Reciprocal object after
\* its step, inverse the three arguments of construct_inverse, c the
\* classical register of the measurement.
compose(q, forward, r, inverse, measurement, c) ==
    <<[gate |-> "init_state", on |-> q],
      [gate |-> "eigs", circuit |-> forward],
      [gate |-> "reciprocal", circuit |-> r.circuit, anc |-> r.anc],
      [gate |-> "eigs_inverse", circuit |-> inverse.circuit,
       input_register |-> inverse.input_register,
       output_register |-> inverse.output_register]>>
    \o (IF measurement
        THEN <<[gate |-> "measure", qubit |-> r.anc, clbit |-> c]>>
        ELSE << >>)

\* A variant that reads the arguments of construct_inverse off the
\* Eigenvalues object as the call found it.
construct_circuit_stale_inverse(self, e, r, n, measurement) ==
    LET q == QuantumRegister(n, "io")
        e1 == eigs_construct_circuit(q, n)
        a == e1.output_register
        r1 == reciprocal_construct_circuit(a, n)
        s == r1.anc
        c == ClassicalRegister(n, "c")
        qc == [kind |-> "circuit", id |-> n,
               gates |-> compose(q, e1.circuit, r1, e, measurement, c)]
    IN  [hhl |-> [self EXCEPT
                    !.success_bit = IF measurement THEN c ELSE @,
                    !.io_register = q,
                    !.eigenvalue_register = a,
                    !.ancilla_register = s,
                    !.circuit = qc],
         eigs |-> e1,
         reciprocal |-> [anc |-> r1.anc]]

\* HHL.construct_circuit(measurement) as call number n on the solver self
\* with collaborators e and r: the three objects after the call.
construct_circuit(self, e, r, n, measurement) ==
    LET q == QuantumRegister(n, "io")
        e1 == eigs_construct_circuit(q, n)
        a == e1.output_register
        r1 == reciprocal_construct_circuit(a, n)
        s == r1.anc
        c == ClassicalRegister(n, "c")
        qc == [kind |-> "circuit", id |-> n,
               gates |-> compose(q, e1.circuit, r1, e1, measurement, c)]
    IN  [hhl |-> [self EXCEPT
                    !.success_bit = IF measurement THEN c ELSE @,
                    !.io_register = q,
                    !.eigenvalue_register = a,
                    !.ancilla_register = s,
                    !.circuit = qc],
         eigs |-> e1,
         reciprocal |-> [anc |-> r1.anc]]

(***************************************************************************)
(* SpecSolver, first part: construct_circuit called on a configured        *)
(* solver.                                                                 *)
(***************************************************************************)
InitSolver ==
    /\ hhl \in {NewSolver(inst) : inst \in Solvers}
    /\ eigs = [circuit |-> None, input_register |-> None,
               output_register |-> None]
    /\ reciprocal = [anc |-> None]
    /\ heap = [ref \in {"ret"} |-> << >>]
    /\ returned = << >>
    /\ log = << >>
    /\ ncalls = 0
    /\ ConfigIdle
    /\ TomoIdle

ConstructCircuit ==
    /\ ncalls < MaxCalls
    /\ \E measurement \in BOOLEAN :
        LET after == construct_circuit(hhl, eigs, reciprocal,
                                       ncalls + 1, measurement)
        IN  /\ hhl' = after.hhl
            /\ eigs' = after.eigs
            /\ reciprocal' = after.reciprocal
            /\ log' = <<[op |-> "construct_circuit",
                         measurement |-> measurement]>>
    /\ ncalls' = ncalls + 1
    /\ UNCHANGED <<heap, returned, configVars, tomoVars>>

(***************************************************************************)
(* HHL._run and the two extraction strategies.  A strategy is modelled by  *)
(* the calls it makes on its collaborators and the writes it makes into    *)
(* self._ret, in order, and by the dict after them.  A real number whose   *)
(* value no property reads is kept as the expression that produced it.     *)
(***************************************************************************)
Min(x, y) == IF x <= y THEN x ELSE y

RECURSIVE Pow(_, _)
Pow(b, k) == IF k = 0 THEN 1 ELSE b * Pow(b, k - 1)

RECURSIVE SumSeq(_)
SumSeq(q) == IF q = << >> THEN 0 ELSE Head(q) + SumSeq(Tail(q))

\* d[k] = v
Put(d, k, v) ==
    [x \in DOMAIN d \cup {k} |-> IF x = k THEN v ELSE d[x]]

\* vec[:self._original_dimension]
resize_vector(self, vec) ==
    SubSeq(vec, 1, Min(self.original_dimension, Len(vec)))

\* self._matrix[:self._original_dimension, :self._original_dimension]
resize_matrix(self) ==
    [i \in 1..self.original_dimension |->
        [j \in 1..self.original_dimension |-> self.matrix[i][j]]]

\* vec / norm, entry by entry, as the entry and the squared norm
Normalized(vec) ==
    LET norm_sq == SumSeq([k \in DOMAIN vec |-> AbsSq(vec[k])])
    IN  [k \in DOMAIN vec |-> [entry |-> vec[k], norm_sq |-> norm_sq]]

\* _hhl_results(vec): the two writes into ret
hhl_results(self, ret, vec) ==
    LET res_vec == resize_vector(self, vec)
        in_vec == resize_vector(self, self.vector)
        matrix == resize_matrix(self)
        with_output == Put(ret, "output", res_vec)
    IN  Put(with_output, "solution",
            [rescaled |-> res_vec, matrix |-> matrix, in_vec |-> in_vec])

\* state_tomography_circuits(circuit, io_register): one circuit per
\* measurement basis of the io register, three bases per qubit.
state_tomography_circuits(circuit, io_register, num_q) ==
    [basis \in 1..Pow(3, num_q) |->
        [kind |-> "circuit", id |-> circuit.id, basis |-> basis,
         gates |-> circuit.gates \o
            <<[gate |-> "tomography", basis |-> basis,
               on |-> io_register]>>]]

\* circ.add_register(ca); circ.measure(self._reciprocal._anc, ca[0])
measure_ancilla(circ, anc, ca) ==
    [circ EXCEPT !.gates =
        @ \o <<[gate |-> "measure", qubit |-> anc, clbit |-> ca]>>]

\* The decoded vectors drawn as the answer of Reciprocal.sv_to_resvec, and
\* the diagonals drawn as the answer of the tomography fitter.
DecodedVectors(num_q) ==
    LET dim == Pow(2, num_q)
    IN  {[k \in 1..dim |-> IF k = 1 THEN One ELSE Zero],
         [k \in 1..dim |-> IF k = 1 THEN <<0, 1>> ELSE Zero],
         [k \in 1..dim |-> IF k = dim THEN One ELSE Zero]}

FitDiagonals(num_q) ==
    LET dim == Pow(2, num_q)
    IN  {[k \in 1..dim |-> IF k = 1 THEN One ELSE Zero],
         [k \in 1..dim |-> IF k = dim THEN One ELSE Zero]}

\* The execution results drawn for a batch of tomography circuits: one
\* count table for the first circuit, one for the others.
SampledCounts(num_q) ==
    LET success == <<"1", " ">> \o [k \in 1..num_q |-> "0"]
        failure == <<"0", " ">> \o [k \in 1..num_q |-> "0"]
    IN  {[k \in {success} |-> 2],
         [k \in {success, failure} |-> IF k = success THEN 1 ELSE 2]}

SampledResults(num_q) ==
    {[idx \in 1..Pow(3, num_q) |->
        [header |-> TomoHeader(num_q),
         counts |-> IF idx = 1 THEN first ELSE others]] :
        <<first, others>> \in SampledCounts(num_q) \X SampledCounts(num_q)}

\* _statevector_simulation, the backend's statevector decoding to vec
statevector_simulation(self, ret, vec) ==
    LET truncated == resize_vector(self, vec)
        probability ==
            SumSeq([k \in DOMAIN truncated |-> AbsSq(truncated[k])])
        with_probability ==
            Put(ret, "probability_result", [scalar |-> probability])
    IN  [ret |-> hhl_results(self, with_probability, Normalized(vec)),
         calls |->
            <<[op |-> "execute", batch |-> FALSE,
               circuits |-> <<self.circuit>>],
              [op |-> "get_statevector", circuit |-> self.circuit],
              [op |-> "set", key |-> "probability_result"],
              [op |-> "set", key |-> "output"],
              [op |-> "set", key |-> "solution"]>>]

\* A variant that executes the tomography circuits one call each.
state_tomography_call_each(self, r, n, ret, outcome) ==
    LET tomo_circuits_noanc ==
            state_tomography_circuits(self.circuit, self.io_register,
                                      self.num_q)
        ca == ClassicalRegister(n, "ca")
        tomo_circuits ==
            [i \in DOMAIN tomo_circuits_noanc |->
                measure_ancilla(tomo_circuits_noanc[i], r.anc, ca)]
        probs ==
            [i \in DOMAIN tomo_circuits |->
                success_ratio(outcome.results[i].counts)]
        with_probability ==
            Put(ret, "probability_result",
                [vector |-> resize_vector(self, probs)])
        results_noanc == tomo_postselect(outcome.results)
    IN  [ret |-> hhl_results(self, with_probability,
                             Normalized(outcome.diagonal)),
         calls |->
            [i \in DOMAIN tomo_circuits |->
                [op |-> "execute", batch |-> FALSE,
                 circuits |-> <<tomo_circuits[i]>>]]
            \o [i \in DOMAIN tomo_circuits |->
                [op |-> "get_counts", circuit |-> tomo_circuits[i]]]
            \o <<[op |-> "set", key |-> "probability_result"],
                 [op |-> "fit", results |-> results_noanc,
                  circuits |-> tomo_circuits_noanc],
                 [op |-> "set", key |-> "output"],
                 [op |-> "set", key |-> "solution"]>>]

\* _state_tomography, the backend answering outcome.results to the batch
\* and the fitter a density matrix of diagonal outcome.diagonal
state_tomography(self, r, n, ret, outcome) ==
    LET tomo_circuits_noanc ==
            state_tomography_circuits(self.circuit, self.io_register,
                                      self.num_q)
        ca == ClassicalRegister(n, "ca")
        tomo_circuits ==
            [i \in DOMAIN tomo_circuits_noanc |->
                measure_ancilla(tomo_circuits_noanc[i], r.anc, ca)]
        probs ==
            [i \in DOMAIN tomo_circuits |->
                success_ratio(outcome.results[i].counts)]
        with_probability ==
            Put(ret, "probability_result",
                [vector |-> resize_vector(self, probs)])
        results_noanc == tomo_postselect(outcome.results)
    IN  [ret |-> hhl_results(self, with_probability,
                             Normalized(outcome.diagonal)),
         calls |->
            <<[op |-> "execute", batch |-> TRUE,
               circuits |-> tomo_circuits]>>
            \o [i \in DOMAIN tomo_circuits |->
                [op |-> "get_counts", circuit |-> tomo_circuits[i]]]
            \o <<[op |-> "set", key |-> "probability_result"],
                 [op |-> "fit", results |-> results_noanc,
                  circuits |-> tomo_circuits_noanc],
                 [op |-> "set", key |-> "output"],
                 [op |-> "set", key |-> "solution"]>>]

\* circuit_to_dag(circuit).properties(): figures of the circuit's structure
\* (its size and the operations it counts), none of its objects' identity
circuit_properties(circuit) ==
    [size |-> Len(circuit.gates),
     operations |-> {circuit.gates[i].gate : i \in DOMAIN circuit.gates}]

\* HHL._run as call number n, on a backend with the given is_statevector
\* that answers outcome: the objects after the call, the dict self._ret
\* after it, and the calls and writes made, in order.
run(self, e, r, ret, n, is_statevector, outcome) ==
    LET built == construct_circuit(self, e, r, n, FALSE)
        extracted ==
            IF is_statevector
            THEN statevector_simulation(built.hhl, ret, outcome.vec)
            ELSE state_tomography(built.hhl, built.reciprocal, n,
                                  ret, outcome)
        with_matrix == Put(extracted.ret, "matrix", resize_matrix(built.hhl))
        with_vector ==
            Put(with_matrix, "vector",
                resize_vector(built.hhl, built.hhl.vector))
        with_info ==
            Put(with_vector, "circuit_info",
                circuit_properties(built.hhl.circuit))
    IN  [hhl |-> built.hhl,
         eigs |-> built.eigs,
         reciprocal |-> built.reciprocal,
         ret |-> with_info,
         calls |->
            <<[op |-> "run", is_statevector |-> is_statevector],
              [op |-> "construct_circuit", measurement |-> FALSE]>>
            \o extracted.calls
            \o <<[op |-> "set", key |-> "matrix"],
                 [op |-> "set", key |-> "vector"],
                 [op |-> "set", key |-> "circuit_info"],
                 [op |-> "return", ref |-> built.hhl.ret]>>]

Outcomes(is_statevector, num_q) ==
    IF is_statevector
    THEN [vec : DecodedVectors(num_q)]
    ELSE [results : SampledResults(num_q), diagonal : FitDiagonals(num_q)]

Run ==
    /\ ncalls < MaxCalls
    /\ \E is_statevector \in BOOLEAN :
        \E outcome \in Outcomes(is_statevector, hhl.num_q) :
            LET after == run(hhl, eigs, reciprocal, heap[hhl.ret],
                             ncalls + 1, is_statevector, outcome)
            IN  /\ hhl' = after.hhl
                /\ eigs' = after.eigs
                /\ reciprocal' = after.reciprocal
                /\ heap' = [heap EXCEPT ![hhl.ret] = after.ret]
                /\ returned' = Append(returned,
                        [ref |-> hhl.ret, at_return |-> after.ret])
                /\ log' = after.calls
    /\ ncalls' = ncalls + 1
    /\ UNCHANGED <<configVars, tomoVars>>

NextSolver == ConstructCircuit \/ Run

SpecSolver == InitSolver /\ [][NextSolver]_vars

\* The call made last, and whether it asked for the measurement.
LastCall == log[1].op
Built == log # << >>
Requested ==
    IF log[1].op = "construct_circuit" THEN log[1].measurement
    ELSE log[2].measurement

\* the gates of a circuit, by name
GateNames(circuit) == [i \in DOMAIN circuit.gates |-> circuit.gates[i].gate]

\* C6: the circuit built by a call consists, in this order, of the state
\* preparation on the call's io register, the forward eigenvalue
\* estimation on that register, the rotation on the output register of
\* that forward step, the inverse built from that forward sub-circuit and
\* its two registers, and the measurement of the rotation's ancilla when
\* and only when it was asked for; all of them objects of this call.
C6_CompositionOrder ==
    Built =>
        LET g == hhl.circuit.gates
        IN  /\ Len(g) = IF Requested THEN 5 ELSE 4
            /\ GateNames(hhl.circuit) =
                IF Requested
                THEN <<"init_state", "eigs", "reciprocal", "eigs_inverse",
                       "measure">>
                ELSE <<"init_state", "eigs", "reciprocal", "eigs_inverse">>
            /\ g[1].on = QuantumRegister(ncalls, "io")
            /\ g[2].circuit.id = ncalls
            /\ g[2].circuit.input_register = g[1].on
            /\ g[3].circuit.on = g[2].circuit.output_register
            /\ g[4].circuit = g[2].circuit
            /\ g[4].input_register = g[1].on
            /\ g[4].output_register = g[2].circuit.output_register
            /\ Requested => g[5].qubit = g[3].anc

\* A second call built a circuit with the measurement.
C6_Witness ==
    /\ Built
    /\ ncalls = 2
    /\ Requested
    /\ hhl.circuit.id = 2
    /\ hhl.circuit.gates[4].circuit.id = 2

\* the positions of the log that hold the given call
CallsOf(op) == {i \in DOMAIN log : log[i].op = op}
WritesOf(key) == {i \in CallsOf("set") : log[i].key = key}

ResultKeys ==
    {"output", "solution", "probability_result", "matrix", "vector",
     "circuit_info"}

\* a tomography circuit of the circuit built last: its gates, then the
\* basis, then the measurement of the ancilla
IsVariantOf(circ, basis) ==
    /\ Len(circ.gates) = Len(hhl.circuit.gates) + 2
    /\ SubSeq(circ.gates, 1, Len(hhl.circuit.gates)) = hhl.circuit.gates
    /\ circ.gates[Len(circ.gates) - 1] =
        [gate |-> "tomography", basis |-> basis, on |-> hhl.io_register]
    /\ circ.gates[Len(circ.gates)].gate = "measure"
    /\ circ.gates[Len(circ.gates)].qubit = reciprocal.anc

\* C8: a run makes one execute call, after the construction and before any
\* write into the result: of the circuit alone and followed by the
\* statevector strategy when the backend is a statevector backend, of all
\* tomography circuits in one batch and followed by one read of the counts
\* per submitted circuit and the tomography strategy when it is not; the
\* three extraction writes come before those of matrix, vector and
\* circuit_info, and the result holds exactly the six entries.
C8_RunOrder ==
    (Built /\ LastCall = "run") =>
        LET sv == log[1].is_statevector
            x == CHOOSE i \in CallsOf("execute") : TRUE
            extraction == WritesOf("probability_result")
                \cup WritesOf("output") \cup WritesOf("solution")
            general == WritesOf("matrix") \cup WritesOf("vector")
                \cup WritesOf("circuit_info")
        IN  /\ Cardinality(CallsOf("execute")) = 1
            /\ CallsOf("construct_circuit") = {2}
            /\ x > 2
            /\ \A k \in ResultKeys : Cardinality(WritesOf(k)) = 1
            /\ \A i \in extraction : x < i /\ \A j \in general : i < j
            /\ \A i \in CallsOf("get_statevector") \cup CallsOf("get_counts")
                    \cup CallsOf("fit") :
                    x < i /\ \A j \in general : i < j
            /\ CallsOf("return") = {Len(log)}
            /\ \A j \in general : j < Len(log)
            /\ DOMAIN heap[hhl.ret] = ResultKeys
            /\ sv =>
                /\ log[x].circuits = <<hhl.circuit>>
                /\ ~log[x].batch
                /\ Cardinality(CallsOf("get_statevector")) = 1
                /\ CallsOf("get_counts") = {}
                /\ CallsOf("fit") = {}
            /\ ~sv =>
                /\ log[x].batch
                /\ Len(log[x].circuits) = Pow(3, hhl.num_q)
                /\ \A b \in DOMAIN log[x].circuits :
                    IsVariantOf(log[x].circuits[b], b)
                /\ CallsOf("get_counts") =
                    (x + 1)..(x + Len(log[x].circuits))
                /\ \A b \in DOMAIN log[x].circuits :
                    log[x + b].circuit = log[x].circuits[b]
                /\ Cardinality(CallsOf("fit")) = 1
                /\ CallsOf("get_statevector") = {}

\* A run on a sampling backend followed a run on a statevector backend.
C8_Witness ==
    /\ Built
    /\ LastCall = "run"
    /\ ~log[1].is_statevector
    /\ Len(returned) = 2
    /\ "vector" \in DOMAIN heap[hhl.ret]["probability_result"]
    /\ Len(log[3].circuits) > 1

\* C9: after a call the recorded io register, eigenphase register, ancilla
\* and circuit are those of that call, a success bit is recorded exactly
\* when that call asked for the measurement, and the circuit's gates are
\* those its flag determines.
C9_Bookkeeping ==
    Built =>
        /\ hhl.circuit.id = ncalls
        /\ hhl.io_register = QuantumRegister(ncalls, "io")
        /\ hhl.eigenvalue_register = QuantumRegister(ncalls, "eigs")
        /\ hhl.ancilla_register = QuantumRegister(ncalls, "anc")
        /\ (hhl.success_bit # None) <=> Requested
        /\ Requested => hhl.success_bit = hhl.circuit.gates[5].clbit
        /\ GateNames(hhl.circuit) =
            IF Requested
            THEN <<"init_state", "eigs", "reciprocal", "eigs_inverse",
                   "measure">>
            ELSE <<"init_state", "eigs", "reciprocal", "eigs_inverse">>

\* C10: every result a run returned still reads as it did when it was
\* returned, whatever was called on the solver since, and every entry of a
\* result just returned was written by the run that returned it.
C10_ReturnedResultsUnchanged ==
    /\ \A i \in DOMAIN returned :
            heap[returned[i].ref] = returned[i].at_return
    /\ (Built /\ LastCall = "run") =>
            \A k \in DOMAIN heap[hhl.ret] : WritesOf(k) # {}

====
